---- MODULE Spec2Model ----
(***************************************************************************)
(* Model of the hmm crate: the Vector / Matrix containers of               *)
(* src/matrices.rs and the HiddenMarkov model with its Viterbi decoder     *)
(* (map_estimate) of src/models.rs.                                        *)
(*                                                                         *)
(* Supplied values (probabilities / potentials) are written in quarters:   *)
(* the integer x stands for the f64 x/4, so 1, 2, 4, 8 are 0.25, 0.5, 1.0, *)
(* 2.0, 0 is 0.0 and -2 is -0.5.  Costs (-log2 of a supplied value) are    *)
(* f64 values: a small integer, or one of the three special values below.  *)
(* State ids and label ids are 0-based as in the source; TLA+ sequences    *)
(* are 1-based, so element k of a Vec is v[k + 1].                         *)
(* Option<T> is a sequence of length <= 1: None is << >>, Some(x) is <<x>>.*)
(***************************************************************************)
EXTENDS Integers, Sequences, FiniteSets, TLC

VARIABLES idata, tdata, edata, transitions, emissions, hmm, pc,
          observations, i, last_msg, mat, tracebacks, states, reads, first

vars == <<idata, tdata, edata, transitions, emissions, hmm, pc,
          observations, i, last_msg, mat, tracebacks, states, reads, first>>

\* Longest observation sequence handed to map_estimate.
MaxObsLen == 2

(***************************************************************************)
(* f64 values                                                              *)
(***************************************************************************)
\* f64::MAX, the seed of min_by_column and argmin_by_column.
F64MAX == 999
\* +infinity, the value of -log2(0.0).
INF == 1000
\* NaN, the value of -log2(x) for x < 0.
NAN == -1000

\* a < b on f64: false when either side is NaN; finite < f64::MAX < +inf.
Lt(a, b) == a # NAN /\ b # NAN /\ a < b

\* a + b on f64: NaN is absorbing, then +inf; f64::MAX + f64::MAX overflows to
\* +inf and f64::MAX plus a small finite value rounds back to f64::MAX.
Add(a, b) ==
    IF a = NAN \/ b = NAN THEN NAN
    ELSE IF a = INF \/ b = INF THEN INF
    ELSE IF a = F64MAX /\ b = F64MAX THEN INF
    ELSE IF a = F64MAX \/ b = F64MAX THEN F64MAX
    ELSE a + b

\* x.log2() without the negation (0.0 kept at an infinite cost).
NegLog2PlainLog(x) ==
    CASE x < 0 -> NAN
      [] x = 0 -> INF
      [] x = 1 -> 0 - 2
      [] x = 2 -> 0 - 1
      [] x = 4 -> 0
      [] x = 8 -> 1

\* -x.log2() for x in quarters.
NegLog2(x) ==
    CASE x < 0 -> NAN
      [] x = 0 -> INF
      [] x = 1 -> 2
      [] x = 2 -> 1
      [] x = 4 -> 0
      [] x = 8 -> 0 - 1

None == << >>
Some(x) == <<x>>

Min2(a, b) == IF a < b THEN a ELSE b

(***************************************************************************)
(* Vector                                                                  *)
(***************************************************************************)
vector_len(v) == Len(v)

vector_is_positive(v) == ~ (\E k \in 1..Len(v) : v[k] < 0)

add_vector(v, u) == [k \in 1..Min2(Len(v), Len(u)) |-> Add(v[k], u[k])]

vector_minus_log(v) == [k \in 1..Len(v) |-> NegLog2(v[k])]

RECURSIVE ArgminFrom(_, _, _, _)
ArgminFrom(v, k, min_index, min_value) ==
    IF k > Len(v) THEN min_index
    ELSE IF Lt(v[k], min_value) THEN ArgminFrom(v, k + 1, k - 1, v[k])
    ELSE ArgminFrom(v, k + 1, min_index, min_value)

\* Defined for a non-empty vector only: the source reads data[0] first.
argmin(v) == ArgminFrom(v, 1, 0, v[1])

(***************************************************************************)
(* Matrix                                                                  *)
(***************************************************************************)
matrix_new(data) ==
    IF Len(data) < 1 THEN None
    ELSE IF \E r \in 1..Len(data) : Len(data[r]) # Len(data[1]) THEN None
    ELSE Some([rows |-> Len(data), cols |-> Len(data[1]), data |-> data])

cols(m) == m.cols

matrix_is_positive_first_row(m) == ~ (\E c \in 1..Len(m.data[1]) : m.data[1][c] < 0)

matrix_is_positive(m) ==
    ~ (\E r \in 1..Len(m.data) : \E c \in 1..Len(m.data[r]) : m.data[r][c] < 0)

matrix_minus_log(m) ==
    [rows |-> m.rows, cols |-> m.cols,
     data |-> [r \in 1..Len(m.data) |->
                 [c \in 1..Len(m.data[r]) |-> NegLog2(m.data[r][c])]]]

column(m, index) ==
    IF index >= m.cols THEN None
    ELSE Some([r \in 1..Len(m.data) |-> m.data[r][index + 1]])

add_to_columns(m, v) ==
    LET n == Min2(m.rows, vector_len(v))
    IN [rows |-> m.rows, cols |-> m.cols,
        data |-> [r \in 1..Len(m.data) |->
                    IF r <= n
                    THEN [c \in 1..Len(m.data[r]) |-> Add(m.data[r][c], v[r])]
                    ELSE m.data[r]]]

\* The scan of one column j (1-based) over the rows r.. of the matrix, from the
\* running pair (value, arg); both reductions seed it with (f64::MAX, 0).
RECURSIVE ColumnScan(_, _, _, _, _)
ColumnScan(m, j, r, value, arg) ==
    IF r > Len(m.data) THEN [value |-> value, arg |-> arg]
    ELSE IF Lt(m.data[r][j], value)
         THEN ColumnScan(m, j, r + 1, m.data[r][j], r - 1)
         ELSE ColumnScan(m, j, r + 1, value, arg)

min_by_column(m) == [j \in 1..m.cols |-> ColumnScan(m, j, 1, F64MAX, 0).value]

argmin_by_column(m) == [j \in 1..m.cols |-> ColumnScan(m, j, 1, F64MAX, 0).arg]

(***************************************************************************)
(* HiddenMarkov                                                            *)
(***************************************************************************)
HiddenMarkov(initials, trans, observation_model) ==
    [state_count |-> vector_len(initials),
     labels_count |-> cols(observation_model),
     init_states |-> vector_minus_log(initials),
     state_transitions |-> matrix_minus_log(trans),
     observation_model |-> matrix_minus_log(observation_model)]

hmm_new_label_check(initials, trans, observation_model) ==
    IF vector_len(initials) < 2 THEN None
    ELSE IF ~ vector_is_positive(initials) THEN None
    ELSE IF ~ matrix_is_positive(trans) THEN None
    ELSE IF ~ matrix_is_positive(observation_model) THEN None
    ELSE IF cols(observation_model) < 2 THEN None
    ELSE Some(HiddenMarkov(initials, trans, observation_model))

hmm_new(initials, trans, observation_model) ==
    IF vector_len(initials) < 2 THEN None
    ELSE IF ~ vector_is_positive(initials) THEN None
    ELSE IF ~ matrix_is_positive(trans) THEN None
    ELSE IF ~ matrix_is_positive(observation_model) THEN None
    ELSE Some(HiddenMarkov(initials, trans, observation_model))

num_states(h) == h.state_count

num_labels(h) == h.labels_count

state_from_observation(h, obs) == column(h.observation_model, obs)

next_msg_and_traceback(h, phi) ==
    LET m == add_to_columns(h.state_transitions, phi)
    IN [mat |-> m, msg |-> min_by_column(m), t |-> argmin_by_column(m)]

\* The validation at the head of map_estimate: TRUE when the call goes on to
\* the forward loop.
observations_valid_first_only(h, o) ==
    Len(o) # 0 /\ ~ (o[1] >= h.labels_count)

observations_valid(h, o) ==
    Len(o) # 0 /\ ~ (\E k \in 1..Len(o) : o[k] >= h.labels_count)

\* The backward loop of map_estimate, for i = k - 1 down to 0; a read of
\* tracebacks[i][last_state] past the end of the Vec panics.
RECURSIVE Backward(_, _, _, _)
Backward(tb, k, last_state, acc) ==
    IF k = 0 THEN [ok |-> TRUE, states |-> acc]
    ELSE IF last_state >= Len(tb[k]) THEN [ok |-> FALSE, states |-> << >>]
    ELSE Backward(tb, k - 1, tb[k][last_state + 1], <<tb[k][last_state + 1]>> \o acc)

(***************************************************************************)
(* Inputs                                                                  *)
(***************************************************************************)
SeqsUpTo(S, n) == UNION {[1..k -> S] : k \in 0..n}

InitialsInputs == {<<2>>, <<2, 2>>, <<2, -2>>, <<4, 0>>, <<8, 2>>}

TransitionRows == {<<4, 4>>, <<1, 1>>, <<0, 4>>, <<4>>, << >>, <<-2, 4>>}

EmissionRows == {<<4, 2>>, <<2, 4>>, <<0, 4>>, <<2>>, << >>, <<4, -2>>}

RowCounts == 0..2

TransitionInputs == UNION {[1..k -> TransitionRows] : k \in RowCounts}

EmissionInputs == UNION {[1..k -> EmissionRows] : k \in RowCounts}

Labels == 0..2

ObservationInputs == SeqsUpTo(Labels, MaxObsLen)

(***************************************************************************)
(* State machine                                                           *)
(***************************************************************************)
Init ==
    /\ idata \in InitialsInputs
    /\ tdata \in TransitionInputs
    /\ edata \in EmissionInputs
    /\ transitions = None
    /\ emissions = None
    /\ hmm = None
    /\ pc = "new_transitions"
    /\ observations = << >>
    /\ i = 0
    /\ last_msg = << >>
    /\ mat = None
    /\ tracebacks = << >>
    /\ states = << >>
    /\ reads = << >>
    /\ first = None

\* Matrix::new(tdata); the caller unwraps the result.
NewTransitions ==
    /\ pc = "new_transitions"
    /\ transitions' = matrix_new(tdata)
    /\ pc' = IF matrix_new(tdata) = None THEN "rejected" ELSE "new_emissions"
    /\ UNCHANGED <<idata, tdata, edata, emissions, hmm, observations, i,
                   last_msg, mat, tracebacks, states, reads, first>>

\* Matrix::new(edata); the caller unwraps the result.
NewEmissions ==
    /\ pc = "new_emissions"
    /\ emissions' = matrix_new(edata)
    /\ pc' = IF matrix_new(edata) = None THEN "rejected" ELSE "new_hmm"
    /\ UNCHANGED <<idata, tdata, edata, transitions, hmm, observations, i,
                   last_msg, mat, tracebacks, states, reads, first>>

\* HiddenMarkov::new(Vector::new(idata), transitions, emissions)
NewHiddenMarkov ==
    /\ pc = "new_hmm"
    /\ hmm' = hmm_new(idata, transitions[1], emissions[1])
    /\ pc' = IF hmm_new(idata, transitions[1], emissions[1]) = None
             THEN "rejected" ELSE "ready"
    /\ UNCHANGED <<idata, tdata, edata, transitions, emissions, observations, i,
                   last_msg, mat, tracebacks, states, reads, first>>

\* A call whose working cost vector is left over from the call before.
map_estimate_begin_stale(o) ==
    /\ pc \in {"ready", "done"}
    /\ observations' = o
    /\ i' = 0
    /\ mat' = None
    /\ tracebacks' = << >>
    /\ reads' = << >>
    /\ states' = << >>
    /\ IF observations_valid(hmm[1], o)
       THEN /\ last_msg' = IF last_msg = << >> THEN hmm[1].init_states ELSE last_msg
            /\ pc' = "loop"
       ELSE /\ last_msg' = << >>
            /\ pc' = "done"
    /\ first' = IF first = None THEN None ELSE Some([first[1] EXCEPT !.later = TRUE])
    /\ UNCHANGED <<idata, tdata, edata, transitions, emissions, hmm>>

\* map_estimate(o), up to the forward loop: the validation and the fresh
\* working state (last_msg, tracebacks) of this call.
map_estimate_begin(o) ==
    /\ pc \in {"ready", "done"}
    /\ observations' = o
    /\ i' = 0
    /\ mat' = None
    /\ tracebacks' = << >>
    /\ reads' = << >>
    /\ states' = << >>
    /\ IF observations_valid(hmm[1], o)
       THEN /\ last_msg' = hmm[1].init_states
            /\ pc' = "loop"
       ELSE /\ last_msg' = << >>
            /\ pc' = "done"
    /\ first' = IF first = None THEN None ELSE Some([first[1] EXCEPT !.later = TRUE])
    /\ UNCHANGED <<idata, tdata, edata, transitions, emissions, hmm>>

\* One iteration of the forward loop of map_estimate.
ForwardStep ==
    /\ pc = "loop"
    /\ i < Len(observations)
    /\ LET col == state_from_observation(hmm[1], observations[i + 1])
       IN IF col = None
          THEN /\ pc' = "panic"
               /\ UNCHANGED <<i, last_msg, mat, tracebacks, reads>>
          ELSE LET phi == add_vector(last_msg, col[1])
                   nxt == next_msg_and_traceback(hmm[1], phi)
               IN /\ last_msg' = nxt.msg
                  /\ mat' = Some(nxt.mat)
                  /\ tracebacks' = Append(tracebacks, nxt.t)
                  /\ reads' = Append(reads, observations[i + 1])
                  /\ i' = i + 1
                  /\ pc' = "loop"
    /\ UNCHANGED <<idata, tdata, edata, transitions, emissions, hmm,
                   observations, states, first>>

\* The end of map_estimate: argmin of the last message and the backward loop.
\* The caller may keep the returned sequence (first) to compare the calls that
\* follow with it; first.later records that another call has begun since.
Traceback ==
    /\ pc = "loop"
    /\ i = Len(observations)
    /\ IF Len(last_msg) = 0
       THEN /\ pc' = "panic"
            /\ UNCHANGED <<states, first>>
       ELSE LET b == Backward(tracebacks, Len(observations), argmin(last_msg), << >>)
            IN IF b.ok
               THEN /\ states' = b.states
                    /\ pc' = "done"
                    /\ first' \in IF first = None
                                  THEN {None, Some([obs |-> observations,
                                                    out |-> b.states,
                                                    later |-> FALSE])}
                                  ELSE {first}
               ELSE /\ pc' = "panic"
                    /\ UNCHANGED <<states, first>>
    /\ UNCHANGED <<idata, tdata, edata, transitions, emissions, hmm,
                   observations, i, last_msg, mat, tracebacks, reads>>

Next ==
    \/ NewTransitions
    \/ NewEmissions
    \/ NewHiddenMarkov
    \/ \E o \in ObservationInputs : map_estimate_begin(o)
    \/ ForwardStep
    \/ Traceback

Spec == Init /\ [][Next]_vars

(***************************************************************************)
(* Vocabulary of the properties                                            *)
(***************************************************************************)
Built == hmm # None

Constructed == pc \notin {"new_transitions", "new_emissions", "new_hmm"}

Called == pc \in {"loop", "done", "panic"}

\* The observation sequence is empty or holds a label >= label_count.
InvalidObservations ==
    \/ Len(observations) = 0
    \/ \E k \in 1..Len(observations) : observations[k] >= hmm[1].labels_count

\* S initials, an S x S transition matrix and an S x L emission matrix.
WellShaped(h) ==
    /\ h.state_transitions.rows = h.state_count
    /\ h.state_transitions.cols = h.state_count
    /\ h.observation_model.rows = h.state_count

HasNegative(v) == \E k \in 1..Len(v) : v[k] < 0

HasNegativeRow(data) == \E r \in 1..Len(data) : HasNegative(data[r])

Rectangular(data) == \A r \in 1..Len(data) : Len(data[r]) = Len(data[1])

FiniteNonNegative(x) == x # NAN /\ x # INF /\ x >= 0

\* A supplied value in (0, 1], in quarters.
InUnitInterval(x) == 0 < x /\ x <= 4

\* Total cost of the state path s for the observations o of model h.
RECURSIVE PathCostFrom(_, _, _, _)
PathCostFrom(h, o, s, t) ==
    LET e == h.observation_model.data[s[t] + 1][o[t] + 1]
    IN IF t = Len(o) THEN e
       ELSE Add(e, Add(h.state_transitions.data[s[t] + 1][s[t + 1] + 1],
                       PathCostFrom(h, o, s, t + 1)))

PathCost(h, o, s) == Add(h.init_states[s[1] + 1], PathCostFrom(h, o, s, 1))

(***************************************************************************)
(* Properties                                                              *)
(***************************************************************************)
\* C1: when map_estimate returns for a well-shaped model and a valid non-empty
\* observation sequence, no state sequence of the same length has a strictly
\* lower total cost than the returned one.
C1_MostProbablePath ==
    (Built /\ pc = "done" /\ ~ InvalidObservations /\ WellShaped(hmm[1])) =>
        \A s \in [1..Len(observations) -> 0..(hmm[1].state_count - 1)] :
            ~ Lt(PathCost(hmm[1], observations, s),
                 PathCost(hmm[1], observations, states))

\* C2: for every model HiddenMarkov::new returned and every valid non-empty
\* observation sequence, map_estimate returns (it does not abort) a sequence of
\* the length of the observations whose values are all < state_count.
C2_SameLengthValidStates ==
    (Built /\ Called /\ ~ InvalidObservations) =>
        /\ pc # "panic"
        /\ pc = "done" =>
              /\ Len(states) = Len(observations)
              /\ \A k \in 1..Len(states) : states[k] < hmm[1].state_count

C4_RejectsDegenerateAndNegative ==
    Built =>
        /\ Len(idata) >= 2
        /\ num_states(hmm[1]) >= 2
        /\ ~ HasNegative(idata)
        /\ ~ HasNegativeRow(tdata)
        /\ ~ HasNegativeRow(edata)

C4_Witness ==
    /\ pc = "rejected" /\ transitions # None /\ emissions # None
    /\ Len(idata) >= 2 /\ ~ HasNegative(idata)
    /\ ~ HasNegative(tdata[1]) /\ HasNegativeRow(tdata)
    /\ hmm = None

\* C5: a call with an empty observation sequence, or with any label >=
\* label_count at any position, returns the empty sequence without running a
\* forward step and without reading an emission column.
C5_InvalidObservationsReturnEmpty ==
    (Built /\ Called /\ InvalidObservations) =>
        /\ pc = "done"
        /\ states = << >>
        /\ i = 0
        /\ reads = << >>
        /\ tracebacks = << >>

C5_Witness ==
    /\ Built /\ pc = "done" /\ Len(observations) = 2
    /\ observations[1] < hmm[1].labels_count
    /\ observations[2] >= hmm[1].labels_count
    /\ states = << >>

\* C6: every Matrix has rows >= 1, cols >= 1 and rows of exactly cols entries;
\* Matrix::new fails on zero rows and on ragged rows; minus_log and
\* add_to_columns keep the shape.
MatrixShapeOk(m) ==
    /\ m.rows >= 1 /\ m.cols >= 1
    /\ Len(m.data) = m.rows
    /\ \A r \in 1..Len(m.data) : Len(m.data[r]) = m.cols

SameShape(m, n) == m.rows = n.rows /\ m.cols = n.cols

C6_MatrixShape ==
    /\ transitions # None => MatrixShapeOk(transitions[1])
    /\ emissions # None => MatrixShapeOk(emissions[1])
    /\ (pc # "new_transitions" /\ (Len(tdata) = 0 \/ ~ Rectangular(tdata))) =>
           transitions = None
    /\ Built =>
          /\ MatrixShapeOk(hmm[1].state_transitions)
          /\ MatrixShapeOk(hmm[1].observation_model)
          /\ SameShape(hmm[1].state_transitions, transitions[1])
          /\ SameShape(hmm[1].observation_model, emissions[1])
    /\ mat # None =>
          /\ MatrixShapeOk(mat[1])
          /\ SameShape(mat[1], hmm[1].state_transitions)

\* C7: the model is the one the constructor built, whatever calls were made,
\* and a call with the observation sequence of an earlier call returns the
\* output of that earlier call.
C7_DeterministicAndModelUnchanged ==
    /\ Built => hmm = hmm_new(idata, transitions[1], emissions[1])
    /\ (pc = "done" /\ first # None /\ first[1].obs = observations) =>
           states = first[1].out

C7_Witness ==
    /\ pc = "done" /\ first # None /\ first[1].later
    /\ first[1].obs = observations /\ states = first[1].out
    /\ Len(states) = MaxObsLen
    /\ WellShaped(hmm[1])
    /\ \E k \in 1..Len(states) : states[k] # states[1]

\* C8: a forward step for label l sets, for every destination state j,
\* cost_next[j] to the minimum over the source states a of
\* transition_cost[a][j] + (cost[a] + emission_cost[a][l]), backpointer[j] to
\* the lowest a attaining it, and adds cost[a] + emission_cost[a][l] to every
\* entry of row a of the transition costs.
C8_ForwardStepMinimum ==
    [][(Built /\ pc = "loop" /\ pc' = "loop" /\ i' = i + 1 /\ WellShaped(hmm[1])) =>
        LET h == hmm[1]
            l == observations[i + 1]
            S == 1..h.state_count
            cand(a, j) == Add(h.state_transitions.data[a][j],
                              Add(last_msg[a], h.observation_model.data[a][l + 1]))
        IN \A j \in S :
              /\ \A a \in S : mat'[1].data[a][j] = cand(a, j)
              /\ \E a \in S : last_msg'[j] = cand(a, j)
              /\ \A a \in S : ~ Lt(cand(a, j), last_msg'[j])
              /\ LET b == tracebacks'[i + 1][j] + 1
                 IN /\ b \in S
                    /\ \A a \in S : ~ Lt(cand(a, j), cand(b, j))
                    /\ \A a \in S : a < b => Lt(cand(b, j), cand(a, j))
      ]_vars

\* C9: map_estimate never reads out of range, for every model the constructor
\* accepts and every observation sequence: the call never aborts.
C9_NoOutOfRangeRead == pc # "panic"

AllInUnitInterval ==
    /\ \A k \in 1..Len(idata) : InUnitInterval(idata[k])
    /\ \A r \in 1..Len(tdata) : \A c \in 1..Len(tdata[r]) : InUnitInterval(tdata[r][c])
    /\ \A r \in 1..Len(edata) : \A c \in 1..Len(edata[r]) : InUnitInterval(edata[r][c])

====
